---- MODULE Spec2Model ----
(***************************************************************************)
(* pourover: CEF log lines (parse_line, create_line), CEFMessage (replace, *)
(* timestamp) and CEFLog (append, search_header, search_extensions).       *)
(*                                                                         *)
(* Text is a sequence of one-character strings.  One symbol of the text    *)
(* alphabet stands for a whole syslog time "Mon DD HH:MM:SS": "T0", "T1",  *)
(* ... are the times of the instants 0, 1, ... of a year, and "Tx" is a    *)
(* time that SYSLOG_SEP matches and strptime rejects (Feb 29, which is no  *)
(* day of strptime's default year 1900).  In every line of the model a     *)
(* time symbol is followed by a space, as in a syslog prefix.              *)
(*                                                                         *)
(* Python values keep their type: a header value is StrV(text) or          *)
(* IntV(number), None is NoneV.  Objects that Python shares by reference   *)
(* (messages, their two dicts) live in stores and are named by index.      *)
(***************************************************************************)
EXTENDS Integers, Sequences, FiniteSets, TLC

VARIABLES
    msgs,    \* the CEFMessage objects created so far: [h, e, raw_line, raw_header]
    hd,      \* the _headers dict objects, msgs[i].h indexes it
    ed,      \* the _extensions dict objects, msgs[i].e indexes it
    lines,   \* CEFLog.lines: references (indexes of msgs)
    now,     \* the clock datetime.utcnow() reads
    res      \* the outcome of the last call

vars == <<msgs, hd, ed, lines, now, res>>

----------------------------------------------------------------------------
(* Bounds *)

MaxMsgs == 2      \* CEFMessage objects created in one behaviour
MaxLog == 2       \* len(log)
YearLen == 3      \* instants in a year
MaxTicks == 1     \* instants the clock advances in one behaviour
MaxObjs == 3      \* CEFMessage objects in one behaviour of SpecReplace
MaxHeld == 1      \* len(log) in SpecReplace
MaxText == 2      \* length of a header field given to create_line

----------------------------------------------------------------------------
(* Values and text *)

NoneV == [t |-> "None"]
StrV(s) == [t |-> "str", s |-> s]
IntV(n) == [t |-> "int", n |-> n]

Space == " "
Pipe == "|"
Backslash == "\\"

\* the time symbols: StampSeq[i + 1] is the text of instant i of a year
StampSeq == <<"T0", "T1", "T2", "T3", "T4">>
StampSyms == {StampSeq[i] : i \in 1..Len(StampSeq)} \cup {"Tx"}
WordChars == {"a", "b", "h", "k", "v", "z", "C", "E", "F", "N", "P", "V",
              "0", "1", "2", "3", "4", "5", "6", "7", "8", "9"}
DigitSeq == <<"0", "1", "2", "3", "4", "5", "6", "7", "8", "9">>
DigitChars == {DigitSeq[i] : i \in 1..10}

Min(S) == CHOOSE x \in S : \A y \in S : x <= y
Max(S) == CHOOSE x \in S : \A y \in S : y <= x
Last(s) == s[Len(s)]

\* s[a:b] of Python with 1-based inclusive ends; empty when b < a
Slice(s, a, b) == IF b < a THEN <<>> ELSE SubSeq(s, a, b)

RECURSIVE SplitFrom(_, _, _)
SplitFrom(s, seps, start) ==
    IF \E i \in seps : i >= start
    THEN LET i == Min({j \in seps : j >= start})
         IN  <<Slice(s, start, i - 1)>> \o SplitFrom(s, seps, i + 1)
    ELSE <<Slice(s, start, Len(s))>>

\* str.split(c)
SplitChar(s, c) == SplitFrom(s, {i \in 1..Len(s) : s[i] = c}, 1)

RECURSIVE JoinWith(_, _)
JoinWith(parts, sep) ==
    IF Len(parts) = 0 THEN <<>>
    ELSE IF Len(parts) = 1 THEN parts[1]
    ELSE parts[1] \o sep \o JoinWith(Tail(parts), sep)

\* str.replace('|', '\|')
RECURSIVE EscapePipes(_)
EscapePipes(s) ==
    IF s = <<>> THEN <<>>
    ELSE (IF Head(s) = Pipe THEN <<Backslash, Pipe>> ELSE <<Head(s)>>)
         \o EscapePipes(Tail(s))

\* query in value, both str
IsSubstring(q, s) ==
    \E i \in 0..(Len(s) - Len(q)) : Slice(s, i + 1, i + Len(q)) = q

\* str(n) for n >= 0
RECURSIVE IntToText(_)
IntToText(n) ==
    IF n < 10 THEN <<DigitSeq[n + 1]>>
    ELSE IntToText(n \div 10) \o <<DigitSeq[(n % 10) + 1]>>

StripSpaces(s) ==
    LET keep == {i \in 1..Len(s) : s[i] # Space}
    IN  IF keep = {} THEN <<>> ELSE Slice(s, Min(keep), Max(keep))

\* int(s) succeeds (no sign, no underscore digit grouping in the alphabet's use)
IsIntText(s) ==
    LET d == StripSpaces(s)
    IN  d # <<>> /\ \A i \in 1..Len(d) : d[i] \in DigitChars

DigitVal(c) == (CHOOSE i \in 1..10 : DigitSeq[i] = c) - 1

RECURSIVE DigitsVal(_)
DigitsVal(d) ==
    IF Len(d) = 0 THEN 0
    ELSE 10 * DigitsVal(Slice(d, 1, Len(d) - 1)) + DigitVal(Last(d))

IntOfText(s) == DigitsVal(StripSpaces(s))

----------------------------------------------------------------------------
(* Ordered dicts: sequences of [k, v] with unique keys *)

HasKey(d, k) == \E i \in 1..Len(d) : d[i].k = k
Get(d, k) == d[CHOOSE i \in 1..Len(d) : d[i].k = k].v

\* d[k] = v
DictSet(d, k, v) ==
    IF HasKey(d, k)
    THEN [i \in 1..Len(d) |-> IF d[i].k = k THEN [k |-> k, v |-> v] ELSE d[i]]
    ELSE Append(d, [k |-> k, v |-> v])

\* d.update(u)
RECURSIVE DictUpdate(_, _)
DictUpdate(d, u) ==
    IF Len(u) = 0 THEN d
    ELSE DictUpdate(DictSet(d, u[1].k, u[1].v), Tail(u))

----------------------------------------------------------------------------
(* functions.py: the regular expressions *)

\* HEADER_SPLIT: a pipe not preceded by a backslash
UnescapedPipes(s) ==
    {i \in 1..Len(s) : s[i] = Pipe /\ (i = 1 \/ s[i - 1] # Backslash)}

\* HEADER_SEP: group(1) is the greedy first repetition, the line up to its
\* last unescaped pipe; 0 when there is none (group(1) is None)
HeaderEnd(line) ==
    IF UnescapedPipes(line) = {} THEN 0 ELSE Max(UnescapedPipes(line))

\* SYSLOG_SEP: a time, whitespace, a run of word characters; the leftmost
\* match, <<>> when there is none
SyslogMatch(tok) ==
    LET starts == {i \in 1..Len(tok) :
                      /\ tok[i] \in StampSyms
                      /\ \E j \in (i + 2)..Len(tok) :
                            /\ \A m \in (i + 1)..(j - 1) : tok[m] = Space
                            /\ tok[j] \in WordChars}
    IN  IF starts = {} THEN <<>>
        ELSE LET i == Min(starts)
                 j == Min({m \in (i + 1)..Len(tok) : tok[m] # Space})
                 e == Max({m \in j..Len(tok) :
                              \A n \in j..m : tok[n] \in WordChars})
             IN  Slice(tok, i, e)

\* EXTENSION_MATCH, the value part: the end of the longest run from j of
\* '\=' pairs and characters other than '='
RECURSIVE ValScan(_, _)
ValScan(s, j) ==
    IF j > Len(s) THEN j - 1
    ELSE IF s[j] = Backslash /\ j < Len(s) /\ s[j + 1] = "=" THEN ValScan(s, j + 2)
    ELSE IF s[j] # "=" THEN ValScan(s, j + 1)
    ELSE j - 1

\* EXTENSION_MATCH at position i: [ok, k, v, next]
ExtMatchAt(s, i) ==
    LET isKey(c) == c # "=" /\ c # Space
        runs == {r \in i..Len(s) : \A m \in i..r : isKey(s[m])}
        r == IF runs = {} THEN 0 ELSE Max(runs)
        m == ValScan(s, r + 2)
        ends == {e \in (r + 2)..m : e = Len(s) \/ s[e + 1] = Space}
    IN  IF r = 0 \/ r + 1 > Len(s) \/ s[r + 1] # "=" \/ ends = {}
        THEN [ok |-> FALSE]
        ELSE LET e == Max(ends)
             IN  [ok |-> TRUE, k |-> Slice(s, i, r), v |-> Slice(s, r + 2, e),
                  next |-> IF e = Len(s) THEN e + 1 ELSE e + 2]

\* re.findall(EXTENSION_MATCH, s) from position i
RECURSIVE ExtFindAll(_, _)
ExtFindAll(s, i) ==
    IF i > Len(s) THEN <<>>
    ELSE LET mt == ExtMatchAt(s, i)
         IN  IF mt.ok THEN <<[k |-> mt.k, v |-> mt.v]>> \o ExtFindAll(s, mt.next)
             ELSE ExtFindAll(s, i + 1)

----------------------------------------------------------------------------
(* functions.py: parse_line *)

Raise(kind) == [err |-> kind]
Return(value) == [err |-> "none", value |-> value]

\* the header dict of lines 61-79, from the split header
HeaderDict(header_values) ==
    LET tok == header_values[1]
        prefix == SyslogMatch(tok)
        word == Last(SplitChar(tok, Space))
        d0 == IF prefix # <<>> THEN <<[k |-> "Prefix", v |-> StrV(prefix)]>>
              ELSE <<>>
    IN  d0 \o <<[k |-> "Version", v |-> IntV(IntOfText(SplitChar(word, ":")[2]))],
                [k |-> "DeviceVendor", v |-> StrV(header_values[2])],
                [k |-> "DeviceProduct", v |-> StrV(header_values[3])],
                [k |-> "DeviceVersion", v |-> StrV(header_values[4])],
                [k |-> "DeviceEventClassID", v |-> StrV(header_values[5])],
                [k |-> "Name", v |-> StrV(header_values[6])],
                [k |-> "Severity", v |-> IntV(IntOfText(header_values[7]))]>>

\* parse_line(line): the exception raised, or the four attributes of the message
ParseLine(line) ==
    LET p == HeaderEnd(line)
        header == Slice(line, 1, p)
        extensions == Slice(line, p + 1, Len(line))
        header_values == SplitFrom(header, UnescapedPipes(header), 1)
        word == Last(SplitChar(header_values[1], Space))
    IN  IF p = 0 THEN Raise("CEFMessageError")
        ELSE IF Len(SplitChar(word, ":")) < 2 THEN Raise("IndexError")
        ELSE IF ~IsIntText(SplitChar(word, ":")[2]) THEN Raise("UnsupportedValueError")
        ELSE IF Len(header_values) < 7 THEN Raise("IndexError")
        ELSE IF ~IsIntText(header_values[7]) THEN Raise("UnsupportedValueError")
        ELSE Return([headers |-> HeaderDict(header_values),
                     extensions |-> DictUpdate(<<>>, ExtFindAll(extensions, 1)),
                     raw_line |-> line,
                     raw_header |-> header])

\* the text create_line assembles (lines 149-181), or the exception it raises;
\* a datetime is the number of its instant, utcnow is the clock's reading
StrfTime(t) == <<StampSeq[(t % YearLen) + 1]>>

CreateLineText(a, utcnow) ==
    LET dev_vendor == EscapePipes(a.dev_vendor)
        dev_product == EscapePipes(a.dev_product)
        dev_version == EscapePipes(a.dev_version)
        name == EscapePipes(a.name)
        header == <<"C", "E", "F", ":">>
                  \o JoinWith(<<IntToText(a.version), dev_vendor, dev_product,
                                dev_version, IntToText(a.dev_event_class_id),
                                name, IntToText(a.severity)>>, <<Pipe>>)
                  \o <<Pipe>>
        stamp == IF a.timestamp # NoneV THEN StrfTime(a.timestamp.n)
                 ELSE StrfTime(utcnow)
        prefixed == IF a.set_syslog_prefix
                    THEN stamp \o <<Space>> \o a.hostname \o <<Space>> \o header
                    ELSE header
        pairs == [i \in 1..Len(a.kwargs) |->
                     a.kwargs[i].k \o <<"=">> \o a.kwargs[i].v \o <<Space>>]
        withExt == prefixed \o JoinWith(pairs, <<>>)
    IN  IF a.set_syslog_prefix /\ a.hostname = <<>>
        THEN Raise("IncompleteMessageError")
        ELSE Return(IF Len(a.kwargs) > 0
                    THEN Slice(withExt, 1, Len(withExt) - 1)
                    ELSE withExt)

\* create_line(**a)
CreateLine(a, utcnow) ==
    LET text == CreateLineText(a, utcnow)
    IN  IF text.err # "none" THEN text ELSE ParseLine(text.value)

----------------------------------------------------------------------------
(* models.py: CEFMessage *)

Headers(m) == hd[msgs[m].h]
Extensions(m) == ed[msgs[m].e]

\* the four attributes of message m, by value
Content(m) ==
    [headers |-> Headers(m), extensions |-> Extensions(m),
     raw_line |-> msgs[m].raw_line, raw_header |-> msgs[m].raw_header]

\* CEFMessage.has_syslog_prefix
MsgHasPrefix(m) == HasKey(Headers(m), "Prefix")

\* CEFMessage.extensions: the dict, or None when it is empty
ExtensionsProp(m) ==
    IF Len(Extensions(m)) > 0 THEN [t |-> "dict", d |-> Extensions(m)] ELSE NoneV

\* datetime.strptime(text, '%b %d %H:%M:%S') succeeds
StrpTimeOk(text) ==
    /\ Len(text) = 1
    /\ \E i \in 1..Len(StampSeq) : StampSeq[i] = text[1] /\ i <= YearLen

StrpTime(text) == (CHOOSE i \in 1..Len(StampSeq) : StampSeq[i] = text[1]) - 1

Year(t) == t \div YearLen

\* CEFMessage.timestamp with the three readings n1, n2, n3 of utcnow() of
\* lines 350-353; a datetime is year * YearLen + instant of the year
TimestampAt(m, n1, n2, n3) ==
    IF ~MsgHasPrefix(m) THEN Return(NoneV)
    ELSE LET words == SplitChar(Get(Headers(m), "Prefix").s, Space)
             text == JoinWith(Slice(words, 1, Len(words) - 1), <<Space>>)
         IN  IF ~StrpTimeOk(text) THEN Raise("ValueError")
             ELSE IF Year(n1) * YearLen + StrpTime(text) > n2
                  THEN Return(IntV((Year(n3) - 1) * YearLen + StrpTime(text)))
                  ELSE Return(IntV(Year(n3) * YearLen + StrpTime(text)))

\* CEFMessage.timestamp read while the clock stands at t
Timestamp(m, t) == TimestampAt(m, t, t, t)

----------------------------------------------------------------------------
(* models.py: CEFLog *)

\* CEFLog.is_empty
IsEmpty == Len(lines) = 0

\* CEFLog.has_syslog_prefix of a list of messages
HasPrefixOf(ls) == IF Len(ls) > 0 THEN MsgHasPrefix(ls[1]) ELSE FALSE

LogHasPrefix == HasPrefixOf(lines)

\* the test of line 105 without the prefix comparison
NoPrefixCheck(line_has, log_has, is_empty) == FALSE

\* the test of line 105 without 'and not self.is_empty'
MismatchIgnoringEmpty(line_has, log_has, is_empty) == line_has # log_has

\* the test of line 105
PrefixMismatch(line_has, log_has, is_empty) ==
    (line_has # log_has) /\ ~is_empty

\* a sort that keeps one element for each key
SortDroppingTies(s, keys) ==
    LET ks == {keys[i] : i \in 1..Len(s)}
        kth(p) == CHOOSE k \in ks : Cardinality({x \in ks : x < k}) = p - 1
    IN  [p \in 1..Cardinality(ks) |->
            s[Min({i \in 1..Len(s) : keys[i] = kth(p)})]]

\* list.sort(key=...) given the keys: stable, ascending
StableSort(s, keys) ==
    LET n == Len(s)
        rank(i) == Cardinality({j \in 1..n :
                       keys[j] < keys[i] \/ (keys[j] = keys[i] /\ j < i)})
    IN  [p \in 1..n |-> s[CHOOSE i \in 1..n : rank(i) = p - 1]]

\* lines 109-111: the list after append, and the exception of the sort if
\* a key cannot be computed (the list then keeps the appended order)
AppendAndSort(ls, m, t) ==
    LET appended == Append(ls, m)
        keys == [i \in 1..Len(appended) |-> Timestamp(appended[i], t)]
    IN  IF ~HasPrefixOf(appended) THEN [err |-> "none", lines |-> appended]
        ELSE IF \E i \in 1..Len(appended) : keys[i].err # "none"
        THEN [err |-> "ValueError", lines |-> appended]
        ELSE [err |-> "none",
              lines |-> StableSort(appended,
                           [i \in 1..Len(appended) |-> keys[i].value.n])]

RECURSIVE Pick(_, _)
Pick(s, keep) ==
    IF Len(s) = 0 THEN <<>>
    ELSE (IF keep[1] THEN <<s[1]>> ELSE <<>>) \o Pick(Tail(s), Tail(keep))

\* lines 129-136 (and 166-173): the messages searched, or the exception of
\* a timestamp; start_time and end_time are NoneV or IntV(datetime)
SearchRange(start_time, end_time, t) ==
    IF ~LogHasPrefix THEN Return(lines)
    ELSE LET st == IF start_time = NoneV THEN Timestamp(lines[1], t)
                   ELSE Return(start_time)
             et == IF end_time = NoneV THEN Timestamp(lines[Len(lines)], t)
                   ELSE Return(end_time)
             ts == [i \in 1..Len(lines) |-> Timestamp(lines[i], t)]
         IN  IF \/ st.err # "none" \/ et.err # "none"
                \/ \E i \in 1..Len(lines) : ts[i].err # "none"
             THEN Raise("ValueError")
             ELSE Return(Pick(lines,
                     [i \in 1..Len(lines) |->
                         st.value.n <= ts[i].value.n /\ ts[i].value.n <= et.value.n]))

\* query in value: a str in a str is the substring test, an int is not iterable
InValue(query, value) ==
    IF value.t = "str" THEN Return(IsSubstring(query, value.s))
    ELSE Raise("TypeError")

\* lines 138-145 (and 186): the list, or None when it is empty
ListOrNone(results) ==
    IF Len(results) > 0 THEN [t |-> "list", items |-> results] ELSE NoneV

\* search_header(query, start_time, end_time) read at clock t
SearchHeader(query, start_time, end_time, t) ==
    LET range == SearchRange(start_time, end_time, t)
        rows == range.value
        hit(m) == \E i \in 1..Len(Headers(m)) :
                      InValue(query, Headers(m)[i].v) = Return(TRUE)
    IN  IF range.err # "none" THEN range
        ELSE IF \E r \in 1..Len(rows) : \E i \in 1..Len(Headers(rows[r])) :
                    InValue(query, Headers(rows[r])[i].v).err # "none"
        THEN Raise("TypeError")
        ELSE Return(ListOrNone(Pick(rows, [r \in 1..Len(rows) |-> hit(rows[r])])))

\* search_extensions(query, start_time, end_time, include_keys) read at clock t
SearchExtensions(query, start_time, end_time, include_keys, t) ==
    LET range == SearchRange(start_time, end_time, t)
        rows == range.value
        inValues(m) == \E i \in 1..Len(Extensions(m)) :
                           IsSubstring(query, Extensions(m)[i].v)
        inKeys(m) == \E i \in 1..Len(Extensions(m)) :
                         IsSubstring(query, Extensions(m)[i].k)
        hit(m) == IF inValues(m) THEN TRUE
                  ELSE IF include_keys THEN inKeys(m)
                  ELSE FALSE
    IN  IF range.err # "none" THEN range
        ELSE IF \E r \in 1..Len(rows) : ExtensionsProp(rows[r]) = NoneV
        THEN Raise("AttributeError")
        ELSE Return(ListOrNone(Pick(rows, [r \in 1..Len(rows) |-> hit(rows[r])])))

----------------------------------------------------------------------------
(* models.py: CEFMessage.replace *)

\* copy(self) in place of deepcopy(self): the copy shares the dicts of m
ShallowCopyRefs(m, new_h, new_e) == [h |-> msgs[m].h, e |-> msgs[m].e]

\* deepcopy(self), line 234: the copy owns new dict objects new_h and new_e
CopyRefs(m, new_h, new_e) == [h |-> new_h, e |-> new_e]

\* 'if v' in place of 'if v is not None' in line 247: 0 and '' are dropped too
TruthyReplacements(o) ==
    SelectSeq(<<[k |-> "Prefix", v |-> o.prefix],
                [k |-> "Version", v |-> o.version],
                [k |-> "DeviceVendor", v |-> o.device_vendor],
                [k |-> "DeviceProduct", v |-> o.device_product],
                [k |-> "DeviceVersion", v |-> o.device_version],
                [k |-> "DeviceEventClassID", v |-> o.device_event_class_id],
                [k |-> "Name", v |-> o.name],
                [k |-> "Severity", v |-> o.severity]>>,
              LAMBDA r : r.v # NoneV /\ r.v # IntV(0) /\ r.v # StrV(<<>>))

\* lines 235-247: the replacements that are not None, in header order
HeaderReplacements(o) ==
    SelectSeq(<<[k |-> "Prefix", v |-> o.prefix],
                [k |-> "Version", v |-> o.version],
                [k |-> "DeviceVendor", v |-> o.device_vendor],
                [k |-> "DeviceProduct", v |-> o.device_product],
                [k |-> "DeviceVersion", v |-> o.device_version],
                [k |-> "DeviceEventClassID", v |-> o.device_event_class_id],
                [k |-> "Name", v |-> o.name],
                [k |-> "Severity", v |-> o.severity]>>,
              LAMBDA r : r.v # NoneV)

\* replace(**o) on message m: the stores after the call; the new message
\* is the last of msgs
ReplaceStores(m, o) ==
    LET refs == CopyRefs(m, Len(hd) + 1, Len(ed) + 1)
        hd1 == Append(hd, Headers(m))
        ed1 == Append(ed, Extensions(m))
        hd2 == [hd1 EXCEPT ![refs.h] = DictUpdate(@, HeaderReplacements(o))]
        cleared == o.extensions # NoneV /\ Len(o.extensions.d) = 0
        ed2 == IF o.extensions = NoneV THEN ed1
               ELSE IF cleared THEN Append(ed1, <<>>)
               ELSE [ed1 EXCEPT ![refs.e] = DictUpdate(@, o.extensions.d)]
    IN  [msgs |-> Append(msgs, [h |-> refs.h,
                                e |-> IF cleared THEN Len(ed2) ELSE refs.e,
                                raw_line |-> msgs[m].raw_line,
                                raw_header |-> msgs[m].raw_header]),
         hd |-> hd2, ed |-> ed2]

----------------------------------------------------------------------------
(* Inputs *)

\* 'CEF:0|<vendor>|P|V|1|N|5|'
HeaderText(vendor) ==
    <<"C", "E", "F", ":", "0", "|">> \o vendor
    \o <<"|", "P", "|", "V", "|", "1", "|", "N", "|", "5", "|">>

LinePrefixedExt == <<"T1", " ", "h", " ">> \o HeaderText(<<"a">>) \o <<"k", "=", "v">>
LinePrefixedBare == <<"T2", " ", "h", " ">> \o HeaderText(<<"b">>)
LinePlainExt == HeaderText(<<"a">>) \o <<"k", "=", "a">>
LinePlainBare == HeaderText(<<"b">>)
LineBadTime == <<"Tx", " ", "h", " ">> \o HeaderText(<<"a">>) \o <<"k", "=", "v">>

\* the lines parsed into messages for the log
LogLines == {LinePrefixedExt, LinePrefixedBare, LinePlainExt, LineBadTime}

Queries == {<<"a">>, <<"k">>}

\* the start_time and end_time given to the searches: omitted, or the last
\* instant of the year before the one the clock starts in
TimeBounds == {NoneV, IntV(YearLen - 1)}

\* the lines parsed into the messages that replace is called on
ReplaceLines == {LinePrefixedExt, LinePlainBare}

NoOverrides ==
    [prefix |-> NoneV, version |-> NoneV, device_vendor |-> NoneV,
     device_product |-> NoneV, device_version |-> NoneV,
     device_event_class_id |-> NoneV, name |-> NoneV, severity |-> NoneV,
     extensions |-> NoneV]

DictV(d) == [t |-> "dict", d |-> d]

\* the keyword arguments replace is called with
Overrides ==
    {NoOverrides,
     [NoOverrides EXCEPT !.severity = IntV(0), !.extensions = DictV(<<>>)],
     [NoOverrides EXCEPT !.name = StrV(<<"z">>),
                         !.extensions = DictV(<<[k |-> <<"k">>, v |-> <<"z">>]>>)],
     [NoOverrides EXCEPT !.prefix = StrV(<<"T2", " ", "h">>),
                         !.extensions = DictV(<<[k |-> <<"b">>, v |-> <<"z">>]>>)],
     [prefix |-> StrV(<<"T0", " ", "h">>), version |-> IntV(1),
      device_vendor |-> StrV(<<"z">>), device_product |-> StrV(<<"z">>),
      device_version |-> StrV(<<"z">>), device_event_class_id |-> StrV(<<"2">>),
      name |-> StrV(<<"z">>), severity |-> IntV(7), extensions |-> NoneV],
     [NoOverrides EXCEPT !.severity = StrV(<<"z">>),
                         !.device_event_class_id = IntV(2)]}

\* texts of at most n characters over the characters cs
RECURSIVE TextsUpTo(_, _)
TextsUpTo(cs, n) ==
    IF n = 0 THEN {<<>>}
    ELSE LET shorter == TextsUpTo(cs, n - 1)
         IN  shorter \cup {Append(t, c) : t \in shorter, c \in cs}

\* the arguments create_line is called with
CreateArgs ==
    [version : {0},
     dev_vendor : TextsUpTo({"a", Pipe, Backslash}, MaxText),
     dev_product : {<<"P">>, <<"P", Pipe>>},
     dev_version : {<<"V">>},
     dev_event_class_id : {1},
     name : {<<"N">>, <<Pipe, "N">>},
     severity : {5},
     set_syslog_prefix : BOOLEAN,
     timestamp : {NoneV, IntV(YearLen + 1)},
     hostname : {<<>>, <<"h">>},
     kwargs : {<<>>, <<[k |-> <<"k">>, v |-> <<"v">>]>>}]

\* the lines given to parse_line directly
RawLines ==
    LogLines \cup
    {LinePlainBare, <<>>, <<"a", "b">>, <<"a", "|">>, <<"C", "E", "F", ":", "0", "|", "a", "|">>,
     <<"C", "E", "F", ":", "a", "|", "a", "|", "P", "|", "V", "|", "1", "|", "N", "|", "5", "|">>,
     <<"C", "E", "F", ":", "0", "|", "a", "|", "P", "|", "V", "|", "1", "|", "N", "|", "a", "|">>,
     <<"C", "E", "F", ":", "0", "|", "a", "|", "P", "|", "V", "|", "1", "|", "N", "|", "5">>}

----------------------------------------------------------------------------
(* The calls *)

Init ==
    /\ msgs = <<>>
    /\ hd = <<>>
    /\ ed = <<>>
    /\ lines = <<>>
    /\ now = YearLen
    /\ res = [op |-> "init", err |-> "none"]

\* a new CEFMessage (parse_line lines 87-94) for a successful outcome r
Store(r) ==
    /\ msgs' = Append(msgs, [h |-> Len(hd) + 1, e |-> Len(ed) + 1,
                             raw_line |-> r.value.raw_line,
                             raw_header |-> r.value.raw_header])
    /\ hd' = Append(hd, r.value.headers)
    /\ ed' = Append(ed, r.value.extensions)

\* message = parse_line(line), for a line of the pool
ParseLineCall(pool, cap) ==
    \E line \in pool :
        /\ Len(msgs) < cap
        /\ LET r == ParseLine(line)
           IN  IF r.err = "none"
               THEN /\ Store(r)
                    /\ res' = [op |-> "parse_line", err |-> "none", line |-> line,
                               value |-> Len(msgs) + 1]
               ELSE /\ UNCHANGED <<msgs, hd, ed>>
                    /\ res' = [op |-> "parse_line", err |-> r.err, line |-> line]
        /\ UNCHANGED <<lines, now>>

ParseForLog == ParseLineCall(LogLines, MaxMsgs)

\* log.append(message) for the message m, on a log of fewer than cap lines
AppendOf(m, cap) ==
    /\ IF PrefixMismatch(MsgHasPrefix(m), LogHasPrefix, IsEmpty)
       THEN /\ lines' = lines
            /\ res' = [op |-> "append", err |-> "SyslogPrefixError", line |-> m]
       ELSE /\ Len(lines) < cap
            /\ LET r == AppendAndSort(lines, m, now)
               IN  /\ lines' = r.lines
                   /\ res' = [op |-> "append", err |-> r.err, line |-> m]
    /\ UNCHANGED <<msgs, hd, ed, now>>

AppendMsg == \E m \in 1..Len(msgs) : AppendOf(m, MaxLog)

\* log.append(x) for an x that is no CEFMessage (lines 102-103)
AppendOther ==
    /\ res' = [op |-> "append", err |-> "TypeError", line |-> 0]
    /\ UNCHANGED <<msgs, hd, ed, lines, now>>

\* log.search_header(query, start_time, end_time); the outcome records
\* search_range of lines 129-136 as well
SearchHeaderOf(query, start_time, end_time) ==
    /\ res' = [op |-> "search_header", query |-> query, include_keys |-> FALSE,
               start_time |-> start_time, end_time |-> end_time,
               range |-> SearchRange(start_time, end_time, now)]
               @@ SearchHeader(query, start_time, end_time, now)
    /\ UNCHANGED <<msgs, hd, ed, lines, now>>

\* log.search_extensions(query, start_time, end_time, include_keys); the
\* outcome records search_range of lines 166-173 as well
SearchExtensionsOf(query, start_time, end_time, include_keys) ==
    /\ res' = [op |-> "search_extensions", query |-> query,
               include_keys |-> include_keys,
               start_time |-> start_time, end_time |-> end_time,
               range |-> SearchRange(start_time, end_time, now)]
               @@ SearchExtensions(query, start_time, end_time, include_keys, now)
    /\ UNCHANGED <<msgs, hd, ed, lines, now>>

\* log.search_header(query)
SearchHeaderCall ==
    \E query \in Queries : SearchHeaderOf(query, NoneV, NoneV)

\* log.search_extensions(query, include_keys=include_keys)
SearchExtensionsCall ==
    \E query \in Queries, include_keys \in BOOLEAN :
        SearchExtensionsOf(query, NoneV, NoneV, include_keys)

\* the clock advances
Tick ==
    /\ now < YearLen + MaxTicks
    /\ now' = now + 1
    /\ UNCHANGED <<msgs, hd, ed, lines, res>>

Next ==
    \/ ParseForLog
    \/ AppendMsg
    \/ AppendOther
    \/ SearchHeaderCall
    \/ SearchExtensionsCall
    \/ Tick

Spec == Init /\ [][Next]_vars

----------------------------------------------------------------------------
(* replace on parsed messages, with a log holding some of them *)

ParseForReplace == ParseLineCall(ReplaceLines, MaxObjs)

\* m.replace(**o)
ReplaceOf(m, o) ==
    /\ Len(msgs) < MaxObjs
    /\ msgs' = ReplaceStores(m, o).msgs
    /\ hd' = ReplaceStores(m, o).hd
    /\ ed' = ReplaceStores(m, o).ed
    /\ res' = [op |-> "replace", err |-> "none", self |-> m, overrides |-> o,
               before |-> Content(m), value |-> Len(msgs) + 1]
    /\ UNCHANGED <<lines, now>>

ReplaceCall == \E m \in 1..Len(msgs), o \in Overrides : ReplaceOf(m, o)

HoldMsg == \E m \in 1..Len(msgs) : AppendOf(m, MaxHeld)

NextReplace ==
    \/ ParseForReplace
    \/ ReplaceCall
    \/ HoldMsg

SpecReplace == Init /\ [][NextReplace]_vars

----------------------------------------------------------------------------
(* parse_line and create_line on their own: one call in a behaviour *)

ParseRaw == res.op = "init" /\ ParseLineCall(RawLines, 1)

\* message = create_line(**a)
CreateLineCall ==
    \E a \in CreateArgs :
        /\ res.op = "init"
        /\ LET r == CreateLine(a, now)
           IN  IF r.err = "none"
               THEN /\ Store(r)
                    /\ res' = [op |-> "create_line", err |-> "none", args |-> a,
                               value |-> Len(msgs) + 1]
               ELSE /\ UNCHANGED <<msgs, hd, ed>>
                    /\ res' = [op |-> "create_line", err |-> r.err, args |-> a]
        /\ UNCHANGED <<lines, now>>

NextParse ==
    \/ ParseRaw
    \/ CreateLineCall

SpecParse == Init /\ [][NextParse]_vars

----------------------------------------------------------------------------
(* CEFMessage.timestamp read on its own, while the clock runs *)

\* the clock stops at the first instant of the next year
ClockEnd == 2 * YearLen

\* the clock stands anywhere in the year
InitTime ==
    /\ msgs = <<>>
    /\ hd = <<>>
    /\ ed = <<>>
    /\ lines = <<>>
    /\ now \in YearLen..(ClockEnd - 1)
    /\ res = [op |-> "init", err |-> "none"]

ParseForTime == ParseLineCall(LogLines, MaxMsgs)

\* m.timestamp: utcnow() is read three times (lines 350-353) and the clock
\* may advance between the readings n1, n2, n3
TimestampCall ==
    \E m \in 1..Len(msgs) :
        \E n1 \in now..ClockEnd : \E n2 \in n1..ClockEnd : \E n3 \in n2..ClockEnd :
            /\ res' = [op |-> "timestamp", self |-> m, start |-> now, end |-> n3]
                       @@ TimestampAt(m, n1, n2, n3)
            /\ now' = n3
            /\ UNCHANGED <<msgs, hd, ed, lines>>

NextTime ==
    \/ ParseForTime
    \/ TimestampCall
    \/ Tick

SpecTime == InitTime /\ [][NextTime]_vars

----------------------------------------------------------------------------
(* the searches with start_time and end_time *)

\* log.search_header(query, start_time, end_time)
SearchHeaderBounded ==
    \E query \in Queries, start_time \in TimeBounds, end_time \in TimeBounds :
        SearchHeaderOf(query, start_time, end_time)

\* log.search_extensions(query, start_time, end_time)
SearchExtensionsBounded ==
    \E query \in Queries, start_time \in TimeBounds, end_time \in TimeBounds :
        SearchExtensionsOf(query, start_time, end_time, FALSE)

NextSearch ==
    \/ ParseForLog
    \/ AppendMsg
    \/ SearchHeaderBounded
    \/ SearchExtensionsBounded
    \/ Tick

SpecSearch == Init /\ [][NextSearch]_vars

----------------------------------------------------------------------------
(* The claims *)

Count(s, x) == Cardinality({i \in 1..Len(s) : s[i] = x})

\* the step is the call log.append(m); the outcome is compared first, which
\* spares evaluating the call on the steps of other calls
IsAppendOf(m) == res'.op = "append" /\ res'.line = m /\ AppendOf(m, MaxLog)

\* C1: every message the log holds has the same has_syslog_prefix, the one
\* the log reports, and an empty log reports False.
PrefixHomogeneity ==
    /\ \A i \in 1..Len(lines) : MsgHasPrefix(lines[i]) = LogHasPrefix
    /\ IsEmpty => ~LogHasPrefix

\* a prefixed log of two messages has just rejected a message
PrefixHomogeneityWitness ==
    /\ Len(lines) >= 2
    /\ LogHasPrefix
    /\ res.op = "append"
    /\ res.err = "SyslogPrefixError"

\* C2: append(m) on a non-empty log whose has_syslog_prefix differs from m's
\* raises SyslogPrefixError carrying m and leaves the list of messages as it
\* was; append on an empty log never raises SyslogPrefixError.
RejectedAppendAtomic ==
    [][\A m \in 1..Len(msgs) :
          IsAppendOf(m) =>
              /\ (~IsEmpty /\ MsgHasPrefix(m) # LogHasPrefix) =>
                     /\ res'.err = "SyslogPrefixError"
                     /\ res'.line = m
                     /\ lines' = lines
              /\ IsEmpty => res'.err # "SyslogPrefixError"]_vars

\* a plain log has just rejected a prefixed message
RejectedAppendWitness ==
    /\ res.op = "append"
    /\ res.err = "SyslogPrefixError"
    /\ MsgHasPrefix(res.line)
    /\ ~IsEmpty
    /\ ~LogHasPrefix

\* C3: in a prefixed log built by successful appends the timestamps, read
\* at any later time, are non-decreasing along the log.
SortedWheneverRead ==
    (LogHasPrefix /\ \A i \in 1..Len(lines) : Timestamp(lines[i], now).err = "none")
    => \A i, j \in 1..Len(lines) :
           i < j => Timestamp(lines[i], now).value.n <= Timestamp(lines[j], now).value.n

\* C4: a successful append(m) makes the log one longer and its messages the
\* previous ones plus m; no call shortens the log and only append changes
\* it; after the first successful append the log is not empty and reports
\* m's has_syslog_prefix.
GrowthOnlyByAppend ==
    [][/\ Len(lines') >= Len(lines)
       /\ lines' # lines => \E m \in 1..Len(msgs) : IsAppendOf(m)
       /\ \A m \in 1..Len(msgs) :
             (IsAppendOf(m) /\ res'.err = "none") =>
                 /\ Len(lines') = Len(lines) + 1
                 /\ \A x \in 1..Len(msgs) :
                       Count(lines', x) = Count(lines, x) + (IF x = m THEN 1 ELSE 0)
                 /\ IsEmpty => (Len(lines') # 0 /\ HasPrefixOf(lines') = MsgHasPrefix(m))
      ]_vars

\* the second successful append put its message before the first one
GrowthOnlyByAppendWitness ==
    /\ res.op = "append"
    /\ res.err = "none"
    /\ res.line = 2
    /\ lines = <<2, 1>>

\* the text a header value is searched as
ValueText(v) == IF v.t = "str" THEN v.s ELSE IntToText(v.n)

InItems(m) == res.value # NoneV /\ \E i \in 1..Len(res.value.items) : res.value.items[i] = m

HeaderHit(m, query) ==
    \E i \in 1..Len(Headers(m)) : IsSubstring(query, ValueText(Headers(m)[i].v))

ExtensionHit(m, query, include_keys) ==
    \/ \E i \in 1..Len(Extensions(m)) : IsSubstring(query, Extensions(m)[i].v)
    \/ /\ include_keys
       /\ \E i \in 1..Len(Extensions(m)) : IsSubstring(query, Extensions(m)[i].k)

\* C5: search_header(query) returns, and a message of the log is in the
\* result exactly when query is a substring of one of its header values.
SearchHeaderMatches ==
    res.op = "search_header" =>
        /\ res.err = "none"
        /\ \A i \in 1..Len(lines) : InItems(lines[i]) <=> HeaderHit(lines[i], res.query)

\* C6: search_extensions(query, include_keys) returns, also when a message
\* has no extensions; a message is in the result exactly when query is in an
\* extension value, or include_keys is set and query is in an extension key;
\* a message without extensions is not in it and no message is in it twice.
SearchExtensionsMatches ==
    res.op = "search_extensions" =>
        /\ res.err = "none"
        /\ \A i \in 1..Len(lines) :
              InItems(lines[i]) <=> ExtensionHit(lines[i], res.query, res.include_keys)
        /\ \A i \in 1..Len(lines) : Len(Extensions(lines[i])) = 0 => ~InItems(lines[i])
        /\ res.value # NoneV =>
              \A m \in 1..Len(msgs) : Count(res.value.items, m) <= Count(lines, m)

\* s is t with some elements left out
RECURSIVE IsSubsequence(_, _)
IsSubsequence(s, t) ==
    IF Len(s) = 0 THEN TRUE
    ELSE IF Len(t) = 0 THEN FALSE
    ELSE IF Head(s) = Head(t) THEN IsSubsequence(Tail(s), Tail(t))
    ELSE IsSubsequence(s, Tail(t))

\* C7: both searches return None, never an empty list, when no message
\* matches (also on an empty log), and otherwise a non-empty list of the
\* matching messages in the order of the log.
SearchSentinel ==
    res.op \in {"search_header", "search_extensions"} =>
        LET hit(m) == IF res.op = "search_header" THEN HeaderHit(m, res.query)
                      ELSE ExtensionHit(m, res.query, res.include_keys)
        IN  /\ res.err = "none"
            /\ (\A i \in 1..Len(lines) : ~hit(lines[i])) => res.value = NoneV
            /\ (\E i \in 1..Len(lines) : hit(lines[i])) =>
                  /\ res.value # NoneV
                  /\ Len(res.value.items) > 0
                  /\ IsSubsequence(res.value.items, lines)

HasPipe(s) == \E i \in 1..Len(s) : s[i] = Pipe

\* C8: create_line with a '|' in dev_vendor (or dev_product, dev_version,
\* name) writes it as '\|' in the line and returns a message whose
\* device_vendor (device_product, device_version, name) is the text given,
\* the other header fields being those given.
EscapingRoundTrip ==
    (/\ res.op = "create_line"
     /\ ~(res.args.set_syslog_prefix /\ res.args.hostname = <<>>)
     /\ \/ HasPipe(res.args.dev_vendor) \/ HasPipe(res.args.dev_product)
        \/ HasPipe(res.args.dev_version) \/ HasPipe(res.args.name))
    => /\ res.err = "none"
       /\ IsSubstring(EscapePipes(res.args.dev_vendor), msgs[res.value].raw_line)
       /\ Get(Headers(res.value), "Version") = IntV(res.args.version)
       /\ Get(Headers(res.value), "DeviceVendor") = StrV(res.args.dev_vendor)
       /\ Get(Headers(res.value), "DeviceProduct") = StrV(res.args.dev_product)
       /\ Get(Headers(res.value), "DeviceVersion") = StrV(res.args.dev_version)
       /\ Get(Headers(res.value), "DeviceEventClassID")
             = StrV(IntToText(res.args.dev_event_class_id))
       /\ Get(Headers(res.value), "Name") = StrV(res.args.name)
       /\ Get(Headers(res.value), "Severity") = IntV(res.args.severity)

NoSharedDicts ==
    \A i, j \in 1..Len(msgs) :
        i # j => (msgs[i].h # msgs[j].h /\ msgs[i].e # msgs[j].e)

\* C9: replace returns a new message; no call changes the headers,
\* extensions, raw_line or raw_header of a message that exists (the receiver,
\* an earlier result, a message the log holds), and no two messages share a
\* dict.
ReplaceCopyOnWrite ==
    [][/\ \A m \in 1..Len(msgs) : Content(m)' = Content(m)
       /\ NoSharedDicts'
       /\ \A m \in 1..Len(msgs), o \in Overrides :
             ReplaceOf(m, o) => (Len(msgs') = Len(msgs) + 1 /\ res'.value = Len(msgs'))
      ]_vars

\* replace with new extensions was called on the result of a replace on a
\* message that the log holds
ReplaceCopyOnWriteWitness ==
    /\ res.op = "replace"
    /\ res.self = 2
    /\ res.value = 3
    /\ lines = <<1>>
    /\ msgs[2].raw_line = msgs[1].raw_line
    /\ Content(2) # Content(1)
    /\ res.overrides.extensions # NoneV
    /\ Content(3) # Content(2)

HeaderKeys == <<"Prefix", "Version", "DeviceVendor", "DeviceProduct",
                "DeviceVersion", "DeviceEventClassID", "Name", "Severity">>

\* the keyword argument of replace for a header key
OverrideFor(o, key) ==
    CASE key = "Prefix" -> o.prefix
      [] key = "Version" -> o.version
      [] key = "DeviceVendor" -> o.device_vendor
      [] key = "DeviceProduct" -> o.device_product
      [] key = "DeviceVersion" -> o.device_version
      [] key = "DeviceEventClassID" -> o.device_event_class_id
      [] key = "Name" -> o.name
      [] key = "Severity" -> o.severity

KeySet(d) == {d[i].k : i \in 1..Len(d)}

\* C10: in the result of replace a header field with an override that is
\* not None has the override, every other header field is the receiver's;
\* the extensions are empty for an empty override, the receiver's updated
\* by the override for a non-empty one, the receiver's without one;
\* raw_line and raw_header are the receiver's; with no override at all the
\* result equals the receiver.
ReplaceOverrides ==
    res.op = "replace" =>
        LET o == res.overrides
            was == res.before
            out == Content(res.value)
        IN  /\ \A n \in 1..Len(HeaderKeys) :
                  LET key == HeaderKeys[n]
                  IN  IF OverrideFor(o, key) # NoneV
                      THEN HasKey(out.headers, key)
                           /\ Get(out.headers, key) = OverrideFor(o, key)
                      ELSE /\ HasKey(out.headers, key) <=> HasKey(was.headers, key)
                           /\ HasKey(was.headers, key) =>
                                 Get(out.headers, key) = Get(was.headers, key)
            /\ KeySet(out.headers) \subseteq {HeaderKeys[n] : n \in 1..Len(HeaderKeys)}
            /\ o.extensions = NoneV => out.extensions = was.extensions
            /\ (o.extensions # NoneV /\ Len(o.extensions.d) = 0) => out.extensions = <<>>
            /\ (o.extensions # NoneV /\ Len(o.extensions.d) > 0) =>
                  /\ KeySet(out.extensions)
                        = KeySet(was.extensions) \cup KeySet(o.extensions.d)
                  /\ \A k \in KeySet(out.extensions) :
                        Get(out.extensions, k) =
                            IF HasKey(o.extensions.d, k) THEN Get(o.extensions.d, k)
                            ELSE Get(was.extensions, k)
            /\ out.raw_line = was.raw_line
            /\ out.raw_header = was.raw_header
            /\ o = NoOverrides => out = was

\* replace(severity=0, extensions={}) was called on a message with extensions
ReplaceOverridesWitness ==
    /\ res.op = "replace"
    /\ res.overrides.severity = IntV(0)
    /\ res.overrides.extensions = DictV(<<>>)
    /\ Len(res.before.extensions) > 0
    /\ Get(res.before.headers, "Severity") = IntV(5)

StrKeys == {"DeviceVendor", "DeviceProduct", "DeviceVersion",
            "DeviceEventClassID", "Name"}

\* the headers d hold an int Version and Severity, the five str fields, and
\* besides them a Prefix or nothing
TypedHeaderDict(d) ==
    /\ \A k \in {"Version", "Severity"} : HasKey(d, k) /\ Get(d, k).t = "int"
    /\ \A k \in StrKeys : HasKey(d, k) /\ Get(d, k).t = "str"
    /\ Len(d) = IF HasKey(d, "Prefix") THEN 8 ELSE 7
    /\ Cardinality(KeySet(d)) = Len(d)

\* C11: every message made by parse_line, create_line or replace has an int
\* Version and Severity, str DeviceVendor, DeviceProduct, DeviceVersion,
\* DeviceEventClassID and Name, and 8 header entries with a syslog prefix,
\* 7 without; a Version or Severity that is no integer is never stored.
TypedHeaders ==
    \A m \in 1..Len(msgs) : TypedHeaderDict(Headers(m))

\* the pipe-delimited tokens of the header of a line: the text up to the
\* last unescaped pipe, split at its unescaped pipes
HeaderTokens(line) ==
    LET header == Slice(line, 1, HeaderEnd(line))
    IN  SplitFrom(header, UnescapedPipes(header), 1)

\* no header boundary in the line, or a header of fewer than 7 tokens
BadHeaderFormat(line) == HeaderEnd(line) = 0 \/ Len(HeaderTokens(line)) < 7

\* C12: parse_line on a line without a header boundary (empty, no 'CEF:'
\* marker) or with fewer than 7 header tokens raises CEFMessageError, no
\* other kind of error, and returns no message.
HeaderFormatFailure ==
    (res.op = "parse_line" /\ BadHeaderFormat(res.line)) =>
        (res.err = "CEFMessageError" /\ msgs = <<>>)

\* the instant of the year that the syslog prefix of message m names
PrefixInstant(m) ==
    (CHOOSE i \in 1..Len(StampSeq) : StampSeq[i] = Get(Headers(m), "Prefix").s[1]) - 1

\* the prefix's instant i placed in the year of t, or in the year before
\* when that is after t
InferredTime(i, t) ==
    IF Year(t) * YearLen + i <= t THEN Year(t) * YearLen + i
    ELSE (Year(t) - 1) * YearLen + i

\* C13: the timestamp of a prefixed message is the prefix's time placed in
\* the year of the clock, or in the year before when that would be after the
\* clock's reading, for a reading of the clock during the access; it is
\* never later than the clock; the timestamp of an unprefixed message is
\* None.
YearInference ==
    res.op = "timestamp" =>
        /\ res.err = "none"
        /\ IF MsgHasPrefix(res.self)
           THEN /\ \E t \in res.start..res.end :
                      res.value = IntV(InferredTime(PrefixInstant(res.self), t))
                /\ res.value.n <= res.end
           ELSE res.value = NoneV

\* the messages of the log whose timestamp, read now, is within [st, et]
Within(st, et) ==
    Pick(lines, [i \in 1..Len(lines) |->
                    /\ st <= Timestamp(lines[i], now).value.n
                    /\ Timestamp(lines[i], now).value.n <= et])

\* every timestamp of the log can be read
TimestampsReadable ==
    \A i \in 1..Len(lines) : Timestamp(lines[i], now).err = "none"

\* the candidates res.range of a search are those of C14
CandidatesAsClaimed ==
    /\ res.range.err = "none"
    /\ IF ~LogHasPrefix THEN res.range.value = lines
       ELSE IF res.start_time = NoneV /\ res.end_time = NoneV
       THEN res.range.value = lines
       ELSE (res.start_time # NoneV /\ res.end_time # NoneV) =>
                res.range.value = Within(res.start_time.n, res.end_time.n)

\* C14: a search of a prefixed log without start_time and end_time takes
\* every message of the log as a candidate, whatever the clock reads at the
\* call; with both given the candidates are the messages with start_time <=
\* timestamp <= end_time; on an unprefixed log the candidates are all
\* messages.  Stated of every step that is a search, for a log whose
\* timestamps can be read.
SearchCandidates ==
    [][(/\ res'.op \in {"search_header", "search_extensions"}
        /\ now' = now
        /\ lines' = lines
        /\ TimestampsReadable)
       => CandidatesAsClaimed']_vars

====
